---- MODULE Spec2Model ----
(***************************************************************************)
(* CD jewel-case generator: the editing session (ProjectState, spine sync, *)
(* file reads, image decodes, drag constraints) and the PDF export         *)
(* (ExportService.exportToPDF driven by ExportPanel.handleExport).         *)
(*                                                                         *)
(* Lengths on the screen are CSS pixels (integers); lengths on the sheet   *)
(* are ten-thousandths of an inch.  A scale factor is the exact fraction   *)
(* [num, den]; the image catalogue is chosen so that every rendered size   *)
(* natural * num / den is an integer.                                      *)
(***************************************************************************)
EXTENDS Integers, Sequences, FiniteSets, TLC

VARIABLES
    part,         \* projectState: panel -> JewelPart
    syncSpines,   \* MainEditor syncSpines ref
    img,          \* per panel: the HTMLImageElement held (by the URL it shows)
    loaded,       \* per panel: the loaded flag
    natural,      \* per panel: the natural size recorded at the last onload
    decoded,      \* per panel: the URLs whose onload has fired (history)
    decodes,      \* Image objects whose onload/onerror has not fired yet
    reqNo,        \* per panel: how many Image objects loadImage has created
    reads,        \* FileReader reads whose onload has not fired yet
    lastOp,       \* the handler that ran last
    nOps,         \* how many uploads / drag-ends / toggles ran so far
    probe,        \* pure-function harness: the inputs drawn
    probeOut,     \* pure-function harness: the results computed so far
    isExporting,  \* ExportPanel isExporting ref
    epc,          \* where the running export stands
    opts,         \* the ExportOptions of the running export
    hidden,       \* per stage: the shapes of its layer that are hidden
    shapesToHide, \* getStageImage's local list of the shapes it hid
    pdfOps,       \* what this export did to the jsPDF document, in order
    rasters,      \* the stage.toDataURL calls of this export, in order
    console,      \* what this export logged with console.error
    outcome       \* how the last export settled, as handleExport saw it

editorVars == <<part, syncSpines, img, loaded, natural, decoded, decodes, reqNo, reads, lastOp, nOps>>
probeVars == <<probe, probeOut>>
exportVars == <<isExporting, epc, opts, hidden, shapesToHide, pdfOps, rasters, console, outcome>>

Max(a, b) == IF a >= b THEN a ELSE b
Min(a, b) == IF a <= b THEN a ELSE b

(***************************************************************************)
(* Bounds of the model.                                                    *)
(***************************************************************************)
MaxUploads == 2
MaxDrags == 2
MaxToggles == 2

(***************************************************************************)
(* Dimension model (constants.ts).                                         *)
(***************************************************************************)
DPI == 96

\* Math.round(inches * DPI), the argument given in thousandths of an inch;
\* Math.round rounds half up.
\* inchesToPixels cutting the fraction off (Math.floor)
inchesToPixels_Floor(milliInches) == (milliInches * DPI) \div 1000

inchesToPixels(milliInches) == (milliInches * DPI + 500) \div 1000

FRONT_WIDTH == inchesToPixels(4750)
FRONT_HEIGHT == inchesToPixels(4750)
LEFT_SPINE_WIDTH == inchesToPixels(250)
BACK_CENTER_WIDTH == inchesToPixels(5400)
RIGHT_SPINE_WIDTH == inchesToPixels(250)
TRAY_HEIGHT == inchesToPixels(4625)
TRAY_TOTAL_WIDTH == inchesToPixels(250 + 5400 + 250)
BLEED_SIZE == inchesToPixels(125)

leftSpineX == 0
backCenterX == LEFT_SPINE_WIDTH
rightSpineX == LEFT_SPINE_WIDTH + BACK_CENTER_WIDTH

(***************************************************************************)
(* Project state (types.ts).                                               *)
(***************************************************************************)
Panels == {"front", "leftSpine", "backCenter", "rightSpine"}

NoUrl == "null"
One == [num |-> 1, den |-> 1]

\* createDefaultJewelPart with a zero scale
createDefaultJewelPart_ZeroScale(id, name) ==
    [id |-> id, name |-> name, imageUrl |-> NoUrl, x |-> 0, y |-> 0,
     scale |-> [num |-> 0, den |-> 1], rotation |-> 0]

createDefaultJewelPart(id, name) ==
    [id |-> id, name |-> name, imageUrl |-> NoUrl, x |-> 0, y |-> 0,
     scale |-> One, rotation |-> 0]

createDefaultProjectState ==
    [p \in Panels |->
        CASE p = "front" -> createDefaultJewelPart("front-cover", "Front Cover")
          [] p = "leftSpine" -> createDefaultJewelPart("left-spine", "Left Spine")
          [] p = "backCenter" -> createDefaultJewelPart("back-center", "Back Center")
          [] p = "rightSpine" -> createDefaultJewelPart("right-spine", "Right Spine")]

(***************************************************************************)
(* The files a user can pick.  A file's data URL decides what its decode   *)
(* yields: A is a wide image, B a narrow tall one, X is not an image.      *)
(***************************************************************************)
Urls == {"A", "B", "X"}
NoFile == "nofile"

Corrupt(url) == url = "X"

NaturalOf(url) ==
    CASE url = "A" -> [width |-> 888, height |-> 444]
      [] url = "B" -> [width |-> 12, height |-> 222]
      [] OTHER -> [width |-> 0, height |-> 0]

NoImage == "none"
ZeroSize == [width |-> 0, height |-> 0]

\* n * scale, exact for the catalogue
Times(n, s) == (n * s.num) \div s.den

(***************************************************************************)
(* Panel transform.                                                        *)
(***************************************************************************)
\* calculateFillHeightScale dividing the section's width, not the tray height
calculateFillHeightScale_PanelWidth(naturalHeight) ==
    IF naturalHeight = 0 THEN One
    ELSE [num |-> LEFT_SPINE_WIDTH, den |-> naturalHeight]

calculateFillHeightScale(naturalHeight) ==
    IF naturalHeight = 0 THEN One
    ELSE [num |-> TRAY_HEIGHT, den |-> naturalHeight]

\* coverScale taking the smaller of the two axis scales (contain, not cover)
coverScale_Contain(isImageLoaded, imageNatural) ==
    IF ~isImageLoaded \/ imageNatural.width = 0 \/ imageNatural.height = 0
    THEN One
    ELSE LET scaleX == [num |-> FRONT_WIDTH, den |-> imageNatural.width]
             scaleY == [num |-> FRONT_HEIGHT, den |-> imageNatural.height]
         IN  IF scaleX.num * scaleY.den <= scaleY.num * scaleX.den
             THEN scaleX ELSE scaleY

coverScale(isImageLoaded, imageNatural) ==
    IF ~isImageLoaded \/ imageNatural.width = 0 \/ imageNatural.height = 0
    THEN One
    ELSE LET scaleX == [num |-> FRONT_WIDTH, den |-> imageNatural.width]
             scaleY == [num |-> FRONT_HEIGHT, den |-> imageNatural.height]
         IN  \* Math.max(scaleX, scaleY)
             IF scaleX.num * scaleY.den >= scaleY.num * scaleX.den
             THEN scaleX ELSE scaleY

scaledWidth(isImageLoaded, imageNatural) ==
    Times(imageNatural.width, coverScale(isImageLoaded, imageNatural))

scaledHeight(isImageLoaded, imageNatural) ==
    Times(imageNatural.height, coverScale(isImageLoaded, imageNatural))

(***************************************************************************)
(* Drag constraint.                                                        *)
(***************************************************************************)
\* dragBoundFunc without the upper limit 0 on the x axis
dragBoundFunc_NoUpperX(pos, isImageLoaded, imageNatural) ==
    LET minX == FRONT_WIDTH - scaledWidth(isImageLoaded, imageNatural)
        minY == FRONT_HEIGHT - scaledHeight(isImageLoaded, imageNatural)
    IN  [x |-> Max(minX, pos.x),
         y |-> Max(minY, Min(0, pos.y))]

dragBoundFunc(pos, isImageLoaded, imageNatural) ==
    LET minX == FRONT_WIDTH - scaledWidth(isImageLoaded, imageNatural)
        minY == FRONT_HEIGHT - scaledHeight(isImageLoaded, imageNatural)
    IN  [x |-> Max(minX, Min(0, pos.x)),
         y |-> Max(minY, Min(0, pos.y))]

leftSpineDragBound(pos, nat) ==
    LET scale == calculateFillHeightScale(nat.height)
        sw == Times(nat.width, scale)
        maxX == Min(leftSpineX, leftSpineX + LEFT_SPINE_WIDTH - sw)
    IN  [x |-> Max(maxX, Min(leftSpineX, pos.x)), y |-> 0]

rightSpineDragBound(pos, nat) ==
    LET scale == calculateFillHeightScale(nat.height)
        sw == Times(nat.width, scale)
        maxX == Min(rightSpineX, rightSpineX + RIGHT_SPINE_WIDTH - sw)
    IN  [x |-> Max(maxX, Min(rightSpineX, pos.x)), y |-> 0]

\* backCenterDragBound with the lower limit not capped at the section origin
backCenterDragBound_NoCap(pos, nat) ==
    LET scale == calculateFillHeightScale(nat.height)
        sw == Times(nat.width, scale)
        maxX == backCenterX + BACK_CENTER_WIDTH - sw
    IN  [x |-> Max(maxX, Min(backCenterX, pos.x)), y |-> 0]

backCenterDragBound(pos, nat) ==
    LET scale == calculateFillHeightScale(nat.height)
        sw == Times(nat.width, scale)
        maxX == Min(backCenterX, backCenterX + BACK_CENTER_WIDTH - sw)
    IN  [x |-> Max(maxX, Min(backCenterX, pos.x)), y |-> 0]

(***************************************************************************)
(* What a panel renders: imageConfig / leftSpineConfig / backCenterConfig  *)
(* / rightSpineConfig are null unless the panel is loaded and holds an     *)
(* image element.                                                          *)
(***************************************************************************)
HasConfig(p) == loaded[p] /\ img[p] # NoImage


(***************************************************************************)
(* Spine sync and the edit handlers, as functions of the project state.    *)
(***************************************************************************)
\* mainWatchSyncSpines without the id / name override after the spread
mainWatchSyncSpines_NoRetag(parts, enabled) ==
    IF enabled
    THEN [parts EXCEPT !["rightSpine"] = parts["leftSpine"]]
    ELSE parts

\* MainEditor: watch(syncSpines)
mainWatchSyncSpines(parts, enabled) ==
    IF enabled
    THEN [parts EXCEPT !["rightSpine"] =
            [parts["leftSpine"] EXCEPT !.id = "right-spine", !.name = "Right Spine"]]
    ELSE parts

\* trayWatchSyncSpines spreading the left spine without the id / name override
trayWatchSyncSpines_NoRetag(parts, sync) ==
    IF sync /\ parts["leftSpine"].imageUrl # NoUrl
    THEN [parts EXCEPT !["rightSpine"] = parts["leftSpine"]]
    ELSE parts

\* trayWatchSyncSpines resetting the right spine when sync is switched off
trayWatchSyncSpines_ClearOnDisable(parts, sync) ==
    IF sync /\ parts["leftSpine"].imageUrl # NoUrl
    THEN [parts EXCEPT !["rightSpine"] =
            [parts["leftSpine"] EXCEPT !.id = "right-spine", !.name = "Right Spine"]]
    ELSE IF ~sync
         THEN [parts EXCEPT !["rightSpine"] = createDefaultJewelPart("right-spine", "Right Spine")]
         ELSE parts

\* TrayEditor: watch(() => props.syncSpines), emitting update:tray
trayWatchSyncSpines(parts, sync) ==
    IF sync /\ parts["leftSpine"].imageUrl # NoUrl
    THEN [parts EXCEPT !["rightSpine"] =
            [parts["leftSpine"] EXCEPT !.id = "right-spine", !.name = "Right Spine"]]
    ELSE parts

\* reader.onload of handleFrontUpload
frontReaderOnload(parts, url) ==
    [parts EXCEPT !["front"].imageUrl = url]

\* reader.onload of handleTrayUpload
trayReaderOnload(parts, sync, section, url) ==
    LET p1 == [parts EXCEPT ![section].imageUrl = url]
    IN  IF sync /\ section = "leftSpine"
        THEN [p1 EXCEPT !["rightSpine"].imageUrl = url]
        ELSE p1

\* FrontEditor handleDragEnd, followed by MainEditor updateFront
handleDragEnd(parts, target, scale) ==
    [parts EXCEPT !["front"] =
        [parts["front"] EXCEPT !.x = target.x, !.y = target.y, !.scale = scale]]

\* TrayEditor drag-end handlers, followed by MainEditor updateTray
\* handleLeftSpineDrag mirroring onto the right spine whatever syncSpines is
handleLeftSpineDrag_AlwaysMirror(parts, sync, targetX) ==
    LET newX == targetX - leftSpineX
        updatedTray == [parts EXCEPT !["leftSpine"].x = newX]
    IN  [updatedTray EXCEPT !["rightSpine"] = [parts["rightSpine"] EXCEPT !.x = newX]]

handleLeftSpineDrag(parts, sync, targetX) ==
    LET newX == targetX - leftSpineX
        updatedTray == [parts EXCEPT !["leftSpine"].x = newX]
    IN  IF sync
        THEN [updatedTray EXCEPT !["rightSpine"] = [parts["rightSpine"] EXCEPT !.x = newX]]
        ELSE updatedTray

handleBackCenterDrag(parts, targetX) ==
    LET newX == targetX - backCenterX
    IN  [parts EXCEPT !["backCenter"].x = newX]

handleRightSpineDrag(parts, targetX) ==
    LET newX == targetX - rightSpineX
    IN  [parts EXCEPT !["rightSpine"].x = newX]

(***************************************************************************)
(* loadImage, run by the imageUrl watchers of the editors for every panel  *)
(* whose imageUrl differs after a handler.  A null URL clears the panel at *)
(* once; any other URL creates a new Image whose onload / onerror fires    *)
(* later.                                                                  *)
(***************************************************************************)
UrlChanged(old, new, p) == new[p].imageUrl # old[p].imageUrl

loadImage(old, new) ==
    /\ img' = [p \in Panels |->
                 IF UrlChanged(old, new, p) /\ new[p].imageUrl = NoUrl
                 THEN NoImage ELSE img[p]]
    /\ loaded' = [p \in Panels |->
                 IF UrlChanged(old, new, p) /\ new[p].imageUrl = NoUrl
                 THEN FALSE ELSE loaded[p]]
    /\ decodes' = decodes \cup
                 {[panel |-> p, url |-> new[p].imageUrl, req |-> reqNo[p] + 1] :
                    p \in {q \in Panels : UrlChanged(old, new, q) /\ new[q].imageUrl # NoUrl}}
    /\ reqNo' = [p \in Panels |->
                 IF UrlChanged(old, new, p) /\ new[p].imageUrl # NoUrl
                 THEN reqNo[p] + 1 ELSE reqNo[p]]
    /\ UNCHANGED <<natural, decoded>>

Op(name, panel) == [op |-> name, panel |-> panel]

(***************************************************************************)
(* Editing session: initial state and actions.                             *)
(***************************************************************************)
ProbeIdle == [fn |-> "none", x |-> 0, y |-> 0, nat |-> ZeroSize, origin |-> 0]

EditorInit ==
    /\ part = createDefaultProjectState
    /\ syncSpines = FALSE
    /\ img = [p \in Panels |-> NoImage]
    /\ loaded = [p \in Panels |-> FALSE]
    /\ natural = [p \in Panels |-> ZeroSize]
    /\ decoded = [p \in Panels |-> {}]
    /\ decodes = {}
    /\ reqNo = [p \in Panels |-> 0]
    /\ reads = {}
    /\ lastOp = Op("init", "none")
    /\ nOps = [uploads |-> 0, drags |-> 0, toggles |-> 0]

\* handleFrontUpload / handleTrayUpload up to reader.readAsDataURL(file).
\* The Right Spine button is only shown while sync is off.
UploadStart(section, file) ==
    /\ nOps.uploads < MaxUploads
    /\ section = "rightSpine" => ~syncSpines
    /\ IF file = NoFile
       THEN UNCHANGED <<reads, nOps>>
       ELSE /\ reads' = reads \cup {[section |-> section, url |-> file]}
            /\ nOps' = [nOps EXCEPT !.uploads = @ + 1]
    /\ lastOp' = Op(IF file = NoFile THEN "uploadCancel" ELSE "uploadStart", section)
    /\ UNCHANGED <<part, syncSpines, img, loaded, natural, decoded, decodes, reqNo>>
    /\ UNCHANGED <<probeVars, exportVars>>

\* reader.onload
ReaderOnload(r) ==
    /\ r \in reads
    /\ reads' = reads \ {r}
    /\ part' = IF r.section = "front"
               THEN frontReaderOnload(part, r.url)
               ELSE trayReaderOnload(part, syncSpines, r.section, r.url)
    /\ loadImage(part, part')
    /\ lastOp' = Op("readerOnload", r.section)
    /\ UNCHANGED <<syncSpines, nOps>>
    /\ UNCHANGED <<probeVars, exportVars>>

\* img.onload
ImgOnload(d) ==
    /\ d \in decodes
    /\ ~Corrupt(d.url)
    /\ decodes' = decodes \ {d}
    /\ img' = [img EXCEPT ![d.panel] = d.url]
    /\ natural' = [natural EXCEPT ![d.panel] = NaturalOf(d.url)]
    /\ decoded' = [decoded EXCEPT ![d.panel] = @ \cup {d.url}]
    /\ loaded' = [loaded EXCEPT ![d.panel] = TRUE]
    /\ lastOp' = Op("imgOnload", d.panel)
    /\ UNCHANGED <<part, syncSpines, reqNo, reads, nOps>>
    /\ UNCHANGED <<probeVars, exportVars>>

\* img.onerror clearing the loaded flag of every panel
ImgOnerror_AllPanels(d) ==
    /\ d \in decodes
    /\ Corrupt(d.url)
    /\ decodes' = decodes \ {d}
    /\ loaded' = [p \in Panels |-> FALSE]
    /\ lastOp' = Op("imgOnerror", d.panel)
    /\ UNCHANGED <<part, syncSpines, img, natural, decoded, reqNo, reads, nOps>>
    /\ UNCHANGED <<probeVars, exportVars>>

\* img.onerror
ImgOnerror(d) ==
    /\ d \in decodes
    /\ Corrupt(d.url)
    /\ decodes' = decodes \ {d}
    /\ loaded' = [loaded EXCEPT ![d.panel] = FALSE]
    /\ lastOp' = Op("imgOnerror", d.panel)
    /\ UNCHANGED <<part, syncSpines, img, natural, decoded, reqNo, reads, nOps>>
    /\ UNCHANGED <<probeVars, exportVars>>

\* the positions a pointer can ask for, relative to the panel origin
DragOffsets == {-2000, -30, 40}

FrontDragEnd(cx, cy) ==
    /\ nOps.drags < MaxDrags
    /\ HasConfig("front")
    /\ LET target == dragBoundFunc([x |-> cx, y |-> cy], loaded["front"], natural["front"])
       IN  part' = handleDragEnd(part, target, coverScale(loaded["front"], natural["front"]))
    /\ nOps' = [nOps EXCEPT !.drags = @ + 1]
    /\ lastOp' = Op("dragEnd", "front")
    /\ UNCHANGED <<syncSpines, img, loaded, natural, decoded, decodes, reqNo, reads>>
    /\ UNCHANGED <<probeVars, exportVars>>

LeftSpineDragEnd(cx) ==
    /\ nOps.drags < MaxDrags
    /\ HasConfig("leftSpine")
    /\ LET target == leftSpineDragBound([x |-> leftSpineX + cx, y |-> 0], natural["leftSpine"])
       IN  part' = handleLeftSpineDrag(part, syncSpines, target.x)
    /\ nOps' = [nOps EXCEPT !.drags = @ + 1]
    /\ lastOp' = Op("dragEnd", "leftSpine")
    /\ UNCHANGED <<syncSpines, img, loaded, natural, decoded, decodes, reqNo, reads>>
    /\ UNCHANGED <<probeVars, exportVars>>

BackCenterDragEnd(cx) ==
    /\ nOps.drags < MaxDrags
    /\ HasConfig("backCenter")
    /\ LET target == backCenterDragBound([x |-> backCenterX + cx, y |-> 0], natural["backCenter"])
       IN  part' = handleBackCenterDrag(part, target.x)
    /\ nOps' = [nOps EXCEPT !.drags = @ + 1]
    /\ lastOp' = Op("dragEnd", "backCenter")
    /\ UNCHANGED <<syncSpines, img, loaded, natural, decoded, decodes, reqNo, reads>>
    /\ UNCHANGED <<probeVars, exportVars>>

RightSpineDragEnd(cx) ==
    /\ nOps.drags < MaxDrags
    /\ HasConfig("rightSpine")
    /\ LET target == rightSpineDragBound([x |-> rightSpineX + cx, y |-> 0], natural["rightSpine"])
       IN  part' = handleRightSpineDrag(part, target.x)
    /\ nOps' = [nOps EXCEPT !.drags = @ + 1]
    /\ lastOp' = Op("dragEnd", "rightSpine")
    /\ UNCHANGED <<syncSpines, img, loaded, natural, decoded, decodes, reqNo, reads>>
    /\ UNCHANGED <<probeVars, exportVars>>

\* the Sync Spines checkbox, then both syncSpines watchers, then the
\* imageUrl watchers
ToggleSync ==
    /\ nOps.toggles < MaxToggles
    /\ syncSpines' = ~syncSpines
    /\ part' = trayWatchSyncSpines(mainWatchSyncSpines(part, syncSpines'), syncSpines')
    /\ loadImage(part, part')
    /\ nOps' = [nOps EXCEPT !.toggles = @ + 1]
    /\ lastOp' = Op("toggleSync", "none")
    /\ UNCHANGED reads
    /\ UNCHANGED <<probeVars, exportVars>>

EditorNext ==
    \/ \E s \in Panels, f \in Urls \cup {NoFile} : UploadStart(s, f)
    \/ \E r \in reads : ReaderOnload(r)
    \/ \E d \in decodes : ImgOnload(d)
    \/ \E d \in decodes : ImgOnerror(d)
    \/ \E cx \in DragOffsets, cy \in DragOffsets : FrontDragEnd(cx, cy)
    \/ \E cx \in DragOffsets : LeftSpineDragEnd(cx)
    \/ \E cx \in DragOffsets : BackCenterDragEnd(cx)
    \/ \E cx \in DragOffsets : RightSpineDragEnd(cx)
    \/ ToggleSync


(***************************************************************************)
(* Export service (ExportService.ts).  Sheet lengths are ten-thousandths   *)
(* of an inch.                                                             *)
(***************************************************************************)
FRONT_COVER_WIDTH == 47500
FRONT_COVER_HEIGHT == 47500
TRAY_WIDTH == 59000
TRAY_HEIGHT_IN == 46250
MARGIN_BETWEEN == 5000
LEFT_SPINE_WIDTH_IN == 2500
BACK_CENTER_WIDTH_IN == 54000
CROP_MARK_LENGTH == 1500
CROP_MARK_OFFSET == 1000
FOLD_GUIDE_OVERHANG == 1500
PIXEL_RATIO == 3

\* The keys exportToPDF is called with: the three of the table, a key that
\* names nothing, and a key that names a property every object inherits.
PaperKeys == {"A4", "F4", "Letter", "B5", "constructor"}
ObjectPrototypeKeys == {"constructor"}

\* PAPER_SIZES[paperSize]: a property read of an object literal, which also
\* finds what the object inherits from Object.prototype (a function, which
\* has no numeric width or height).
PAPER_SIZES(key) ==
    CASE key = "A4" -> [kind |-> "paper", width |-> 82700, height |-> 116900]
      [] key = "F4" -> [kind |-> "paper", width |-> 85000, height |-> 130000]
      [] key = "Letter" -> [kind |-> "paper", width |-> 85000, height |-> 110000]
      [] key \in ObjectPrototypeKeys -> [kind |-> "inherited", width |-> 0, height |-> 0]
      [] OTHER -> [kind |-> "undefined", width |-> 0, height |-> 0]

\* !paper
Falsy(paper) == paper.kind = "undefined"

(***************************************************************************)
(* The shapes of the two stages' layers (FrontEditor and TrayEditor        *)
(* templates), with the attributes getStageImage looks at.                 *)
(***************************************************************************)
Stages == {"front", "tray"}

Shape(id, kind, fill, stroke, dash) ==
    [id |-> id, kind |-> kind, fill |-> fill, stroke |-> stroke, dash |-> dash]

StageShapes(s) ==
    IF s = "front"
    THEN {Shape("background", "Rect", TRUE, FALSE, FALSE),
          Shape("image", "Image", FALSE, FALSE, FALSE),
          Shape("border", "Rect", FALSE, TRUE, FALSE),
          Shape("safetyZone", "Rect", FALSE, TRUE, TRUE)}
    ELSE {Shape("bgLeftSpine", "Rect", TRUE, FALSE, FALSE),
          Shape("bgBackCenter", "Rect", TRUE, FALSE, FALSE),
          Shape("bgRightSpine", "Rect", TRUE, FALSE, FALSE),
          Shape("imgLeftSpine", "Image", FALSE, FALSE, FALSE),
          Shape("imgBackCenter", "Image", FALSE, FALSE, FALSE),
          Shape("imgRightSpine", "Image", FALSE, FALSE, FALSE),
          Shape("border", "Rect", FALSE, TRUE, FALSE),
          Shape("dividerLeft", "Line", FALSE, TRUE, FALSE),
          Shape("dividerRight", "Line", FALSE, TRUE, FALSE),
          Shape("safetyLeftSpine", "Rect", FALSE, TRUE, TRUE),
          Shape("safetyBackCenter", "Rect", FALSE, TRUE, TRUE),
          Shape("safetyRightSpine", "Rect", FALSE, TRUE, TRUE)}

\* getStageImage without the pass over the layer's lines
ShapesToHide_NoLines(s) ==
    {sh.id : sh \in {r \in StageShapes(s) :
                        r.kind = "Rect" /\ (r.dash \/ (r.stroke /\ ~r.fill))}}

\* getStageImage: the shapes pushed to shapesToHide and hidden
ShapesToHide(s) ==
    {sh.id : sh \in {r \in StageShapes(s) :
                        \/ r.kind = "Rect" /\ (r.dash \/ (r.stroke /\ ~r.fill))
                        \/ r.kind = "Line"}}

(***************************************************************************)
(* exportToPDF: layout.                                                    *)
(***************************************************************************)
contentWidth == Max(FRONT_COVER_WIDTH, TRAY_WIDTH)
totalContentHeight == FRONT_COVER_HEIGHT + MARGIN_BETWEEN + TRAY_HEIGHT_IN

startX(paper) == (paper.width - contentWidth) \div 2
\* startY placing the content block at the top of the sheet
startY_Top(paper) == 0

startY(paper) == (paper.height - totalContentHeight) \div 2

frontX(paper) == startX(paper) + (contentWidth - FRONT_COVER_WIDTH) \div 2
frontY(paper) == startY(paper)
trayX(paper) == startX(paper) + (contentWidth - TRAY_WIDTH) \div 2
\* trayY without the gap between the two panels
trayY_NoMargin(paper) == startY(paper) + FRONT_COVER_HEIGHT

trayY(paper) == startY(paper) + FRONT_COVER_HEIGHT + MARGIN_BETWEEN

PdfOp(op, x1, y1, x2, y2, dash, by) ==
    [op |-> op, x1 |-> x1, y1 |-> y1, x2 |-> x2, y2 |-> y2, dash |-> dash, by |-> by]

Line(x1, y1, x2, y2, dash, by) == PdfOp("line", x1, y1, x2, y2, dash, by)

\* drawCropMarks with the marks starting at the corners of the box
drawCropMarks_NoOffset(x, y, width, height, by) ==
    << Line(x - CROP_MARK_LENGTH, y, x, y, FALSE, by),
       Line(x, y - CROP_MARK_LENGTH, x, y, FALSE, by),
       Line(x + width, y, x + width + CROP_MARK_LENGTH, y, FALSE, by),
       Line(x + width, y - CROP_MARK_LENGTH, x + width, y, FALSE, by),
       Line(x - CROP_MARK_LENGTH, y + height, x, y + height, FALSE, by),
       Line(x, y + height, x, y + height + CROP_MARK_LENGTH, FALSE, by),
       Line(x + width, y + height, x + width + CROP_MARK_LENGTH, y + height, FALSE, by),
       Line(x + width, y + height, x + width, y + height + CROP_MARK_LENGTH, FALSE, by) >>

drawCropMarks(x, y, width, height, by) ==
    << Line(x - CROP_MARK_OFFSET - CROP_MARK_LENGTH, y, x - CROP_MARK_OFFSET, y, FALSE, by),
       Line(x, y - CROP_MARK_OFFSET - CROP_MARK_LENGTH, x, y - CROP_MARK_OFFSET, FALSE, by),
       Line(x + width + CROP_MARK_OFFSET, y, x + width + CROP_MARK_OFFSET + CROP_MARK_LENGTH, y, FALSE, by),
       Line(x + width, y - CROP_MARK_OFFSET - CROP_MARK_LENGTH, x + width, y - CROP_MARK_OFFSET, FALSE, by),
       Line(x - CROP_MARK_OFFSET - CROP_MARK_LENGTH, y + height, x - CROP_MARK_OFFSET, y + height, FALSE, by),
       Line(x, y + height + CROP_MARK_OFFSET, x, y + height + CROP_MARK_OFFSET + CROP_MARK_LENGTH, FALSE, by),
       Line(x + width + CROP_MARK_OFFSET, y + height, x + width + CROP_MARK_OFFSET + CROP_MARK_LENGTH, y + height, FALSE, by),
       Line(x + width, y + height + CROP_MARK_OFFSET, x + width, y + height + CROP_MARK_OFFSET + CROP_MARK_LENGTH, FALSE, by) >>

\* drawFoldGuides with the lines ending at the tray's top and bottom edges
drawFoldGuides_NoOverhang(tX, tY, trayHeight) ==
    LET leftFoldX == tX + LEFT_SPINE_WIDTH_IN
        rightFoldX == tX + LEFT_SPINE_WIDTH_IN + BACK_CENTER_WIDTH_IN
    IN  << Line(leftFoldX, tY, leftFoldX, tY + trayHeight, TRUE, "foldGuide"),
           Line(rightFoldX, tY, rightFoldX, tY + trayHeight, TRUE, "foldGuide") >>

drawFoldGuides(tX, tY, trayHeight) ==
    LET leftFoldX == tX + LEFT_SPINE_WIDTH_IN
        rightFoldX == tX + LEFT_SPINE_WIDTH_IN + BACK_CENTER_WIDTH_IN
    IN  << Line(leftFoldX, tY - FOLD_GUIDE_OVERHANG, leftFoldX, tY + trayHeight + FOLD_GUIDE_OVERHANG, TRUE, "foldGuide"),
           Line(rightFoldX, tY - FOLD_GUIDE_OVERHANG, rightFoldX, tY + trayHeight + FOLD_GUIDE_OVERHANG, TRUE, "foldGuide") >>

addImage(s, paper) ==
    IF s = "front"
    THEN PdfOp("addImage", frontX(paper), frontY(paper), FRONT_COVER_WIDTH, FRONT_COVER_HEIGHT, FALSE, "front")
    ELSE PdfOp("addImage", trayX(paper), trayY(paper), TRAY_WIDTH, TRAY_HEIGHT_IN, FALSE, "tray")

(***************************************************************************)
(* exportToPDF and handleExport: control flow.                             *)
(***************************************************************************)
NoOpts == [paperSize |-> "A4", frontStage |-> FALSE, trayStage |-> FALSE]
NoOutcome == [result |-> "none", error |-> "none", warnings |-> <<>>]

StagePresent(s) == IF s = "front" THEN opts.frontStage ELSE opts.trayStage

\* where exportToPDF goes on after a stage
AfterStage(s) == IF s = "front" THEN "tray" ELSE "cropMarks"

\* onStageError without the catch: the error leaves exportToPDF
onStageError_Rethrow(s) == "rejected"

\* the catch block of a stage: log and go on with what follows the stage
onStageError(s) == AfterStage(s)

\* what exportToPDF's promise resolves with: it is a Promise<void>
exportResolution(log) == <<>>

ExportInit ==
    /\ isExporting = FALSE
    /\ epc = "idle"
    /\ opts = NoOpts
    /\ hidden = [s \in Stages |-> {}]
    /\ shapesToHide = {}
    /\ pdfOps = <<>>
    /\ rasters = <<>>
    /\ console = <<>>
    /\ outcome = NoOutcome

\* handleExport up to the call of exportToPDF
HandleExport(key, fs, ts) ==
    /\ epc = "idle"
    /\ ~isExporting
    /\ isExporting' = TRUE
    /\ opts' = [paperSize |-> key, frontStage |-> fs, trayStage |-> ts]
    /\ pdfOps' = <<>>
    /\ rasters' = <<>>
    /\ console' = <<>>
    /\ shapesToHide' = {}
    /\ outcome' = NoOutcome
    /\ epc' = "validate"
    /\ UNCHANGED hidden
    /\ UNCHANGED <<editorVars, probeVars>>

\* exportToPDF: the paper lookup, the throw, new jsPDF
Validate ==
    /\ epc = "validate"
    /\ LET paper == PAPER_SIZES(opts.paperSize)
       IN  IF Falsy(paper)
           THEN /\ epc' = "rejected"
                /\ outcome' = [outcome EXCEPT !.error = "InvalidPaperSize"]
                /\ UNCHANGED pdfOps
           ELSE /\ epc' = "foldGuides"
                /\ pdfOps' = <<PdfOp("newPdf", 0, 0, paper.width, paper.height, FALSE, paper.kind)>>
                /\ UNCHANGED outcome
    /\ UNCHANGED <<isExporting, opts, hidden, shapesToHide, rasters, console>>
    /\ UNCHANGED <<editorVars, probeVars>>

\* drawFoldGuides(pdf, trayX, trayY, TRAY_HEIGHT).  With a paper that has no
\* numeric size every coordinate is NaN, and the library either rejects the
\* call or draws.
DrawFoldGuides(libraryThrows) ==
    /\ epc = "foldGuides"
    /\ LET paper == PAPER_SIZES(opts.paperSize)
       IN  IF libraryThrows
           THEN /\ paper.kind # "paper"
                /\ epc' = "rejected"
                /\ outcome' = [outcome EXCEPT !.error = "LibraryError"]
                /\ UNCHANGED pdfOps
           ELSE /\ epc' = "front"
                /\ pdfOps' = pdfOps \o drawFoldGuides(trayX(paper), trayY(paper), TRAY_HEIGHT_IN)
                /\ UNCHANGED outcome
    /\ UNCHANGED <<isExporting, opts, hidden, shapesToHide, rasters, console>>
    /\ UNCHANGED <<editorVars, probeVars>>

\* if (frontStage) / if (trayStage) is false
StageSkip(s) ==
    /\ epc = s
    /\ ~StagePresent(s)
    /\ epc' = AfterStage(s)
    /\ UNCHANGED <<isExporting, opts, hidden, shapesToHide, pdfOps, rasters, console, outcome>>
    /\ UNCHANGED <<editorVars, probeVars>>

\* getStageImage: find and hide the overlay shapes
StageHide(s) ==
    /\ epc = s
    /\ StagePresent(s)
    /\ shapesToHide' = ShapesToHide(s)
    /\ hidden' = [hidden EXCEPT ![s] = @ \cup ShapesToHide(s)]
    /\ epc' = s \o ":raster"
    /\ UNCHANGED <<isExporting, opts, pdfOps, rasters, console, outcome>>
    /\ UNCHANGED <<editorVars, probeVars>>

\* getStageImage: stage.toDataURL, which returns or throws
StageRasterize(s, throws) ==
    /\ epc = s \o ":raster"
    /\ rasters' = Append(rasters, [stage |-> s, pixelRatio |-> PIXEL_RATIO,
                                   hidden |-> hidden[s], threw |-> throws])
    /\ IF throws
       THEN /\ console' = Append(console, "Failed to export " \o s)
            /\ epc' = onStageError(s)
       ELSE /\ epc' = s \o ":show"
            /\ UNCHANGED console
    /\ UNCHANGED <<isExporting, opts, hidden, shapesToHide, pdfOps, outcome>>
    /\ UNCHANGED <<editorVars, probeVars>>

\* getStageImage: shapesToHide.forEach(show), return dataUrl
StageShow(s) ==
    /\ epc = s \o ":show"
    /\ hidden' = [hidden EXCEPT ![s] = @ \ shapesToHide]
    /\ epc' = s \o ":embed"
    /\ UNCHANGED <<isExporting, opts, shapesToHide, pdfOps, rasters, console, outcome>>
    /\ UNCHANGED <<editorVars, probeVars>>

\* pdf.addImage, which returns or throws
StageEmbed(s, throws) ==
    /\ epc = s \o ":embed"
    /\ IF throws
       THEN /\ console' = Append(console, "Failed to export " \o s)
            /\ epc' = onStageError(s)
            /\ UNCHANGED pdfOps
       ELSE /\ pdfOps' = Append(pdfOps, addImage(s, PAPER_SIZES(opts.paperSize)))
            /\ epc' = AfterStage(s)
            /\ UNCHANGED console
    /\ UNCHANGED <<isExporting, opts, hidden, shapesToHide, rasters, outcome>>
    /\ UNCHANGED <<editorVars, probeVars>>

\* both drawCropMarks calls made before the stages are embedded
DrawCropMarks_BeforeImages ==
    /\ epc = "front"
    /\ \A i \in 1..Len(pdfOps) : pdfOps[i].by # "cropFront"
    /\ LET paper == PAPER_SIZES(opts.paperSize)
       IN  pdfOps' = pdfOps
              \o drawCropMarks(frontX(paper), frontY(paper), FRONT_COVER_WIDTH, FRONT_COVER_HEIGHT, "cropFront")
              \o drawCropMarks(trayX(paper), trayY(paper), TRAY_WIDTH, TRAY_HEIGHT_IN, "cropTray")
    /\ epc' = "front"
    /\ UNCHANGED <<isExporting, opts, hidden, shapesToHide, rasters, console, outcome>>
    /\ UNCHANGED <<editorVars, probeVars>>

\* both drawCropMarks calls
DrawCropMarks ==
    /\ epc = "cropMarks"
    /\ LET paper == PAPER_SIZES(opts.paperSize)
       IN  pdfOps' = pdfOps
              \o drawCropMarks(frontX(paper), frontY(paper), FRONT_COVER_WIDTH, FRONT_COVER_HEIGHT, "cropFront")
              \o drawCropMarks(trayX(paper), trayY(paper), TRAY_WIDTH, TRAY_HEIGHT_IN, "cropTray")
    /\ epc' = "save"
    /\ UNCHANGED <<isExporting, opts, hidden, shapesToHide, rasters, console, outcome>>
    /\ UNCHANGED <<editorVars, probeVars>>

\* pdf.save(filename); the promise resolves
Save ==
    /\ epc = "save"
    /\ pdfOps' = Append(pdfOps, PdfOp("save", 0, 0, 0, 0, FALSE, "save"))
    /\ epc' = "resolved"
    /\ UNCHANGED <<isExporting, opts, hidden, shapesToHide, rasters, console, outcome>>
    /\ UNCHANGED <<editorVars, probeVars>>

\* handleExport clearing isExporting after the await inside the try block
Settle_ClearOnlyOnSuccess ==
    /\ epc \in {"resolved", "rejected"}
    /\ outcome' = [outcome EXCEPT !.result = epc,
                                  !.warnings = IF epc = "resolved"
                                               THEN exportResolution(console) ELSE <<>>]
    /\ console' = IF epc = "rejected" THEN Append(console, "Export failed") ELSE console
    /\ isExporting' = (epc = "rejected")
    /\ epc' = "idle"
    /\ UNCHANGED <<opts, hidden, shapesToHide, pdfOps, rasters>>
    /\ UNCHANGED <<editorVars, probeVars>>

\* handleExport after the await: catch logs, finally clears isExporting
Settle ==
    /\ epc \in {"resolved", "rejected"}
    /\ outcome' = [outcome EXCEPT !.result = epc,
                                  !.warnings = IF epc = "resolved"
                                               THEN exportResolution(console) ELSE <<>>]
    /\ console' = IF epc = "rejected" THEN Append(console, "Export failed") ELSE console
    /\ isExporting' = FALSE
    /\ epc' = "idle"
    /\ UNCHANGED <<opts, hidden, shapesToHide, pdfOps, rasters>>
    /\ UNCHANGED <<editorVars, probeVars>>

ExportNext ==
    \/ \E key \in PaperKeys, fs \in BOOLEAN, ts \in BOOLEAN : HandleExport(key, fs, ts)
    \/ Validate
    \/ \E t \in BOOLEAN : DrawFoldGuides(t)
    \/ \E s \in Stages : StageSkip(s)
    \/ \E s \in Stages : StageHide(s)
    \/ \E s \in Stages, t \in BOOLEAN : StageRasterize(s, t)
    \/ \E s \in Stages : StageShow(s)
    \/ \E s \in Stages, t \in BOOLEAN : StageEmbed(s, t)
    \/ DrawCropMarks
    \/ Save
    \/ Settle

vars == <<part, syncSpines, img, loaded, natural, decoded, decodes, reqNo, reads, lastOp, nOps,
          probe, probeOut,
          isExporting, epc, opts, hidden, shapesToHide, pdfOps, rasters, console, outcome>>

ProbeInitIdle ==
    /\ probe = ProbeIdle
    /\ probeOut = <<>>

(***************************************************************************)
(* The editing session.                                                    *)
(***************************************************************************)
Init == EditorInit /\ ProbeInitIdle /\ ExportInit

Next == EditorNext

Spec == Init /\ [][Next]_vars

(***************************************************************************)
(* The export: handleExport runs exportToPDF to completion; every await in *)
(* it resumes in a microtask, so no editing event runs in between.         *)
(***************************************************************************)
SpecExport == Init /\ [][ExportNext]_vars

\* The continuation of handleExport after the await is a microtask queued
\* when exportToPDF's promise settles: once queued it runs.
SpecExportFair == Init /\ [][ExportNext]_vars /\ WF_vars(Settle)

(***************************************************************************)
(* The front-cover drag clamp as a function: the inputs are drawn at the   *)
(* start, Clamp applies dragBoundFunc, Reclamp applies it to its result.   *)
(***************************************************************************)
CoverNaturals ==
    {[width |-> 456, height |-> 456], [width |-> 888, height |-> 444],
     [width |-> 12, height |-> 222], [width |-> 300, height |-> 200],
     [width |-> 200, height |-> 300], [width |-> 1000, height |-> 500],
     [width |-> 912, height |-> 912], [width |-> 100, height |-> 100]}

ProbeCoords == {-10000, -500, -456, -228, -1, 0, 1, 300}

ClampInit ==
    /\ probe \in {[fn |-> "dragBoundFunc", x |-> px, y |-> py, nat |-> n, origin |-> 0] :
                    px \in ProbeCoords, py \in ProbeCoords, n \in CoverNaturals}
    /\ probeOut = <<>>

Clamp ==
    /\ probe.fn = "dragBoundFunc"
    /\ Len(probeOut) = 0
    /\ probeOut' = <<dragBoundFunc([x |-> probe.x, y |-> probe.y], TRUE, probe.nat)>>
    /\ UNCHANGED probe
    /\ UNCHANGED <<editorVars, exportVars>>

Reclamp ==
    /\ probe.fn = "dragBoundFunc"
    /\ Len(probeOut) = 1
    /\ probeOut' = Append(probeOut, dragBoundFunc(probeOut[1], TRUE, probe.nat))
    /\ UNCHANGED probe
    /\ UNCHANGED <<editorVars, exportVars>>

ClampNext == Clamp \/ Reclamp

ClampSpecInit == EditorInit /\ ExportInit /\ ClampInit

SpecClamp == ClampSpecInit /\ [][ClampNext]_vars

(***************************************************************************)
(* Standalone spine editor (SpineEditor.vue): scale, rendered width and    *)
(* drag clamp.                                                             *)
(***************************************************************************)
SPINE_WIDTH == inchesToPixels(250)
SPINE_HEIGHT == inchesToPixels(4625)

calculatedScale(isImageLoaded, imageNaturalHeight) ==
    IF ~isImageLoaded \/ imageNaturalHeight = 0 THEN One
    ELSE [num |-> SPINE_HEIGHT, den |-> imageNaturalHeight]

scaledImageWidth(isImageLoaded, nat) ==
    Times(nat.width, calculatedScale(isImageLoaded, nat.height))

spineDragBoundFunc(pos, isImageLoaded, nat) ==
    LET maxX == Min(0, SPINE_WIDTH - scaledImageWidth(isImageLoaded, nat))
    IN  [x |-> Max(maxX, Min(0, pos.x)), y |-> 0]

(***************************************************************************)
(* The strip-panel drag clamps as functions: the inputs are drawn at the   *)
(* start, StripClamp applies the panel's clamp, StripReclamp applies it to *)
(* its result.  An image is only draggable while it is loaded.             *)
(***************************************************************************)
StripFns == {"leftSpineDragBound", "backCenterDragBound", "rightSpineDragBound", "spineDragBoundFunc"}

\* fill-height images, some narrower than every panel, some wider
StripNaturals ==
    {[width |-> 888, height |-> 444], [width |-> 12, height |-> 222],
     [width |-> 6, height |-> 222], [width |-> 518, height |-> 444],
     [width |-> 37, height |-> 111], [width |-> 24, height |-> 444]}

ProbeYs == {-5, 0, 7}

\* the x offset of a section inside the stage its clamp works in
StripOrigin(fn) ==
    CASE fn = "leftSpineDragBound" -> leftSpineX
      [] fn = "backCenterDragBound" -> backCenterX
      [] fn = "rightSpineDragBound" -> rightSpineX
      [] fn = "spineDragBoundFunc" -> 0

StripBound(fn, pos, nat) ==
    CASE fn = "leftSpineDragBound" -> leftSpineDragBound(pos, nat)
      [] fn = "backCenterDragBound" -> backCenterDragBound(pos, nat)
      [] fn = "rightSpineDragBound" -> rightSpineDragBound(pos, nat)
      [] fn = "spineDragBoundFunc" -> spineDragBoundFunc(pos, TRUE, nat)

StripClampInit ==
    /\ EditorInit
    /\ ExportInit
    /\ probe \in {[fn |-> f, x |-> StripOrigin(f) + px, y |-> py, nat |-> n, origin |-> StripOrigin(f)] :
                    f \in StripFns, px \in ProbeCoords, py \in ProbeYs, n \in StripNaturals}
    /\ probeOut = <<>>

StripClamp ==
    /\ probe.fn \in StripFns
    /\ Len(probeOut) = 0
    /\ probeOut' = <<StripBound(probe.fn, [x |-> probe.x, y |-> probe.y], probe.nat)>>
    /\ UNCHANGED probe
    /\ UNCHANGED <<editorVars, exportVars>>

StripReclamp ==
    /\ probe.fn \in StripFns
    /\ Len(probeOut) = 1
    /\ probeOut' = Append(probeOut, StripBound(probe.fn, probeOut[1], probe.nat))
    /\ UNCHANGED probe
    /\ UNCHANGED <<editorVars, exportVars>>

StripClampNext == StripClamp \/ StripReclamp

SpecStripClamp == StripClampInit /\ [][StripClampNext]_vars

(***************************************************************************)
(* The scale policies as pure functions: calculateFillHeightScale of the   *)
(* TrayEditor, calculatedScale of the SpineEditor and coverScale of the    *)
(* FrontEditor, applied to natural sizes that include a zero width and a   *)
(* zero height, with the component's isImageLoaded flag both ways.         *)
(***************************************************************************)
ScaleFns == {"calculateFillHeightScale", "calculatedScale", "coverScale"}

ScaleWidths == {0, 12, 300, 456, 888, 1000}

ScaleHeights == {0, 111, 222, 444, 456, 1000}

ScaleNaturals == {[width |-> w, height |-> h] : w \in ScaleWidths, h \in ScaleHeights}

ScaleOf(fn, isImageLoaded, nat) ==
    CASE fn = "calculateFillHeightScale" -> calculateFillHeightScale(nat.height)
      [] fn = "calculatedScale" -> calculatedScale(isImageLoaded, nat.height)
      [] fn = "coverScale" -> coverScale(isImageLoaded, nat)

ScaleInit ==
    /\ EditorInit
    /\ ExportInit
    /\ probe \in {[fn |-> f, x |-> 0, y |-> 0, nat |-> n, origin |-> 0, isImageLoaded |-> l] :
                    f \in ScaleFns, n \in ScaleNaturals, l \in BOOLEAN}
    /\ probeOut = <<>>

ComputeScale ==
    /\ probe.fn \in ScaleFns
    /\ Len(probeOut) = 0
    /\ probeOut' = <<ScaleOf(probe.fn, probe.isImageLoaded, probe.nat)>>
    /\ UNCHANGED probe
    /\ UNCHANGED <<editorVars, exportVars>>

ScaleNext == ComputeScale

SpecScale == ScaleInit /\ [][ScaleNext]_vars

(***************************************************************************)
(* exportToPDF: the file name.  A title is a sequence of UTF-16 code       *)
(* units; an ASCII unit is written as itself, another one by its code      *)
(* point.  String.prototype.replace with the /[^a-zA-Z0-9\-_]/g pattern    *)
(* works unit by unit; String.prototype.toLowerCase follows the Unicode    *)
(* case mappings, under which a unit may map to an ASCII letter (U+212A    *)
(* KELVIN SIGN to k) or to two units (U+0130 to i, U+0307).                *)
(***************************************************************************)
UpperLetters == <<"A", "B", "C", "D", "E", "F", "G", "H", "I", "J", "K", "L", "M", "N", "O", "P", "Q", "R", "S", "T", "U", "V", "W", "X", "Y", "Z">>

LowerLetters == <<"a", "b", "c", "d", "e", "f", "g", "h", "i", "j", "k", "l", "m", "n", "o", "p", "q", "r", "s", "t", "u", "v", "w", "x", "y", "z">>

DigitChars == {"0", "1", "2", "3", "4", "5", "6", "7", "8", "9"}

Range(s) == {s[i] : i \in 1..Len(s)}

\* the units the character class [a-zA-Z0-9\-_] holds
InClass(c) == c \in Range(UpperLetters) \cup Range(LowerLetters) \cup DigitChars \cup {"-", "_"}

\* title.replace(/[^a-zA-Z0-9\-_]/g, '_')
replaceOutsideClass(s) == [i \in 1..Len(s) |-> IF InClass(s[i]) THEN s[i] ELSE "_"]

\* the lower-case mapping of one code unit
toLowerCaseUnit(c) ==
    IF c \in Range(UpperLetters)
    THEN <<LowerLetters[CHOOSE i \in 1..Len(UpperLetters) : UpperLetters[i] = c]>>
    ELSE CASE c = "U+212A" -> <<"k">>
           [] c = "U+0130" -> <<"i", "U+0307">>
           [] c = "U+00C9" -> <<"U+00E9">>
           [] OTHER -> <<c>>

RECURSIVE toLowerCase(_)
toLowerCase(s) ==
    IF s = <<>> THEN <<>> ELSE toLowerCaseUnit(Head(s)) \o toLowerCase(Tail(s))

\* sanitizedTitle without the call of toLowerCase
sanitizedTitle_NoLowerCase(title) == replaceOutsideClass(title)

sanitizedTitle(title) == toLowerCase(replaceOutsideClass(title))

FilenameSuffix == <<"_", "j", "e", "w", "e", "l", "_", "c", "a", "s", "e", ".", "p", "d", "f">>

filename(title) == sanitizedTitle(title) \o FilenameSuffix

\* the default of the title option
DefaultTitle == <<"c", "d", "-", "j", "e", "w", "e", "l", "-", "c", "a", "s", "e">>

\* the initial value of ExportPanel's albumTitle
UntitledAlbum == <<"U", "n", "t", "i", "t", "l", "e", "d", " ", "A", "l", "b", "u", "m">>

MaxTitleLen == 3

TitleUnits == {"M", "y", " ", "b", "1", "#", "-", "_", "U+212A", "U+0130", "U+00C9", "U+00E9"}

RECURSIVE TitlesUpTo(_)
TitlesUpTo(n) ==
    IF n = 0 THEN {<<>>}
    ELSE LET shorter == TitlesUpTo(n - 1)
         IN  shorter \cup {Append(t, c) : t \in shorter, c \in TitleUnits}

TypedTitles == {<<"M", "y", " ", "A", "l", "b", "u", "m", " ", "#", "1", "!">>, UntitledAlbum, DefaultTitle}

FilenameInit ==
    /\ EditorInit
    /\ ExportInit
    /\ probe \in {[fn |-> "filename", x |-> 0, y |-> 0, nat |-> ZeroSize, origin |-> 0, title |-> t] :
                    t \in TitlesUpTo(MaxTitleLen) \cup TypedTitles}
    /\ probeOut = <<>>

GenerateFilename ==
    /\ probe.fn = "filename"
    /\ Len(probeOut) = 0
    /\ probeOut' = <<filename(probe.title)>>
    /\ UNCHANGED probe
    /\ UNCHANGED <<editorVars, exportVars>>

FilenameNext == GenerateFilename

SpecFilename == FilenameInit /\ [][FilenameNext]_vars

(***************************************************************************)
(* inchesToPixels as a pure function, applied to lengths in thousandths of *)
(* an inch: a run of small lengths, negative ones included, and the        *)
(* physical lengths of the case.                                           *)
(***************************************************************************)
InchInputs == (-20..200) \cup {125, 250, 4625, 4750, 5400, 5900}

PixelsInit ==
    /\ EditorInit
    /\ ExportInit
    /\ probe \in {[fn |-> "inchesToPixels", x |-> m, y |-> 0, nat |-> ZeroSize, origin |-> 0] :
                    m \in InchInputs}
    /\ probeOut = <<>>

ConvertInches ==
    /\ probe.fn = "inchesToPixels"
    /\ Len(probeOut) = 0
    /\ probeOut' = <<inchesToPixels(probe.x)>>
    /\ UNCHANGED probe
    /\ UNCHANGED <<editorVars, exportVars>>

PixelsNext == ConvertInches

SpecPixels == PixelsInit /\ [][PixelsNext]_vars

(***************************************************************************)
(* TrayEditor: the clip regions of the three sections' groups.             *)
(***************************************************************************)
leftSpineClipConfig ==
    [clipX |-> leftSpineX, clipY |-> 0, clipWidth |-> LEFT_SPINE_WIDTH, clipHeight |-> TRAY_HEIGHT]

\* backCenterClipConfig reaching to the right edge of the tray
backCenterClipConfig_ToTrayEdge ==
    [clipX |-> backCenterX, clipY |-> 0, clipWidth |-> TRAY_TOTAL_WIDTH - backCenterX, clipHeight |-> TRAY_HEIGHT]

backCenterClipConfig ==
    [clipX |-> backCenterX, clipY |-> 0, clipWidth |-> BACK_CENTER_WIDTH, clipHeight |-> TRAY_HEIGHT]

rightSpineClipConfig ==
    [clipX |-> rightSpineX, clipY |-> 0, clipWidth |-> RIGHT_SPINE_WIDTH, clipHeight |-> TRAY_HEIGHT]

ClipConfigOf(p) ==
    CASE p = "leftSpine" -> leftSpineClipConfig
      [] p = "backCenter" -> backCenterClipConfig
      [] p = "rightSpine" -> rightSpineClipConfig

(***************************************************************************)
(* Properties.                                                             *)
(***************************************************************************)
MirroredFields(a, b) ==
    /\ a.imageUrl = b.imageUrl
    /\ a.x = b.x
    /\ a.y = b.y
    /\ a.scale = b.scale
    /\ a.rotation = b.rotation

\* C1: while spine sync is enabled, the right spine's part equals the left
\* spine's part in imageUrl, x, y, scale and rotation, in every reachable
\* state.
C1_SyncedSpinesEqual ==
    syncSpines => MirroredFields(part["rightSpine"], part["leftSpine"])

PanelWidth(p) ==
    CASE p = "front" -> FRONT_WIDTH
      [] p = "leftSpine" -> LEFT_SPINE_WIDTH
      [] p = "backCenter" -> BACK_CENTER_WIDTH
      [] p = "rightSpine" -> RIGHT_SPINE_WIDTH

\* the rendered width of the image a strip panel shows
StripRenderedWidth(p) == Times(natural[p].width, calculateFillHeightScale(natural[p].height))

OffsetInClampRange(p) ==
    IF p = "front"
    THEN /\ FRONT_WIDTH - scaledWidth(loaded[p], natural[p]) <= part[p].x
         /\ part[p].x <= 0
         /\ FRONT_HEIGHT - scaledHeight(loaded[p], natural[p]) <= part[p].y
         /\ part[p].y <= 0
    ELSE /\ Min(0, PanelWidth(p) - StripRenderedWidth(p)) <= part[p].x
         /\ part[p].x <= 0
         /\ part[p].y = 0

\* C2: every panel that renders a loaded image has its stored offset inside
\* the clamp range of that image's current rendered size.
C2_OffsetsInClampRange ==
    \A p \in Panels : HasConfig(p) => OffsetInClampRange(p)

\* C3: while sync is enabled, a right-spine drag-end or the completion of a
\* right-spine upload leaves the right spine's part unchanged.
C3_RightSpineEditsIgnoredWhileSynced ==
    [][(syncSpines /\ lastOp' \in {Op("dragEnd", "rightSpine"), Op("readerOnload", "rightSpine")})
          => part'["rightSpine"] = part["rightSpine"]]_vars

\* C4: the result of a decode that settles after a newer decode was
\* requested for the same panel is discarded: it changes neither the
\* panel's image element nor its natural size nor its loaded flag.
C4_StaleDecodeDiscarded ==
    [][\A d \in decodes :
          (d \notin decodes' /\ d.req < reqNo[d.panel])
             => /\ img'[d.panel] = img[d.panel]
                /\ natural'[d.panel] = natural[d.panel]
                /\ loaded'[d.panel] = loaded[d.panel]]_vars

\* C5: outside getStageImage's own hide-rasterize-show section no overlay
\* shape of either stage is hidden, whether rasterization returned or threw.
C5_OverlaysRestoredOnEveryExit ==
    \A s \in Stages :
        hidden[s] # {} => epc \in {s \o ":raster", s \o ":show"}

\* C6: the step that enables sync sets the right spine's imageUrl, x, y,
\* scale and rotation to the left spine's values before the step, keeps the
\* right spine's id and name, and leaves the left spine unchanged.
C6_EnableSyncCopiesLeft ==
    [][(~syncSpines /\ syncSpines')
          => /\ MirroredFields(part'["rightSpine"], part["leftSpine"])
             /\ part'["rightSpine"].id = "right-spine"
             /\ part'["rightSpine"].name = "Right Spine"
             /\ part'["leftSpine"] = part["leftSpine"]]_vars

C6_Witness ==
    /\ lastOp = Op("toggleSync", "none")
    /\ syncSpines
    /\ part["leftSpine"].imageUrl = "A"
    /\ part["leftSpine"].x = -30
    /\ part["rightSpine"].imageUrl = "A"
    /\ part["rightSpine"].x = -30
    /\ part["rightSpine"].id = "right-spine"

ValidPaperKeys == {"A4", "F4", "Letter"}

\* C7: an export called with a key other than A4, F4, Letter rejects with
\* the invalid-paper-size error, and has created no page, hidden no shape,
\* rasterized no stage, drawn nothing and saved nothing.
C7_InvalidPaperRejectedFirst ==
    (opts.paperSize \notin ValidPaperKeys /\ epc # "validate")
        => /\ epc \in {"rejected", "idle"}
           /\ outcome.error = "InvalidPaperSize"
           /\ pdfOps = <<>>
           /\ rasters = <<>>
           /\ shapesToHide = {}

OpsWhere(op, by) == {i \in 1..Len(pdfOps) : pdfOps[i].op = op /\ pdfOps[i].by = by}
RastersOf(s) == {i \in 1..Len(rasters) : rasters[i].stage = s}
Logged(msg) == \E i \in 1..Len(console) : console[i] = msg

\* C8: with a valid paper size the export never rejects; each present stage
\* is rasterized once whatever happened to the other stage, and its image is
\* embedded unless that stage itself failed; a null stage is neither
\* rasterized nor reported; fold guides and crop marks are drawn and the
\* document is saved exactly once.
C8_StageFailureDoesNotAbort ==
    opts.paperSize \in ValidPaperKeys
        => /\ epc # "rejected"
           /\ outcome.result # "rejected"
           /\ epc = "resolved"
                => /\ Cardinality(OpsWhere("line", "foldGuide")) = 2
                   /\ Cardinality(OpsWhere("line", "cropFront")) = 8
                   /\ Cardinality(OpsWhere("line", "cropTray")) = 8
                   /\ Cardinality(OpsWhere("save", "save")) = 1
                   /\ pdfOps[Len(pdfOps)].op = "save"
                   /\ \A s \in Stages :
                        IF StagePresent(s)
                        THEN /\ Cardinality(RastersOf(s)) = 1
                             /\ Cardinality(OpsWhere("addImage", s))
                                  = IF Logged("Failed to export " \o s) THEN 0 ELSE 1
                        ELSE /\ RastersOf(s) = {}
                             /\ OpsWhere("addImage", s) = {}
                             /\ ~Logged("Failed to export " \o s)

C8_Witness ==
    /\ epc = "resolved"
    /\ opts.paperSize = "A4"
    /\ opts.frontStage /\ opts.trayStage
    /\ console = <<"Failed to export front">>
    /\ OpsWhere("addImage", "front") = {}
    /\ Cardinality(OpsWhere("addImage", "tray")) = 1
    /\ Cardinality(OpsWhere("save", "save")) = 1

\* C9: the caller of a resolved export receives one warning per stage
\* failure that occurred during it.
C9_StageFailuresReported ==
    (epc = "idle" /\ outcome.result = "resolved")
        => Len(outcome.warnings) = Len(console)

InFrontRange(pos, nat) ==
    /\ FRONT_WIDTH - scaledWidth(TRUE, nat) <= pos.x
    /\ pos.x <= 0
    /\ FRONT_HEIGHT - scaledHeight(TRUE, nat) <= pos.y
    /\ pos.y <= 0

\* C10: for an image scaled by the cover policy (Rw >= W, Rh >= H) the
\* clamped position lies in [W - Rw, 0] x [H - Rh, 0], each coordinate of
\* the result depends on the same coordinate of the candidate only, a
\* candidate inside the range is returned unchanged, and clamping the
\* result again returns it unchanged.
C10_FrontClamp ==
    (probe.fn = "dragBoundFunc" /\ Len(probeOut) >= 1)
        => LET cand == [x |-> probe.x, y |-> probe.y]
               out == probeOut[1]
           IN  /\ scaledWidth(TRUE, probe.nat) >= FRONT_WIDTH
               /\ scaledHeight(TRUE, probe.nat) >= FRONT_HEIGHT
               /\ InFrontRange(out, probe.nat)
               /\ \A other \in ProbeCoords :
                    /\ dragBoundFunc([x |-> probe.x, y |-> other], TRUE, probe.nat).x = out.x
                    /\ dragBoundFunc([x |-> other, y |-> probe.y], TRUE, probe.nat).y = out.y
               /\ InFrontRange(cand, probe.nat) => out = cand
               /\ Len(probeOut) = 2 => probeOut[2] = out

C10_Witness ==
    /\ probe.fn = "dragBoundFunc"
    /\ Len(probeOut) = 2
    /\ probe.nat = [width |-> 300, height |-> 200]
    /\ probe.x = -500 /\ probe.y = 300
    /\ probeOut[1] = [x |-> -228, y |-> 0]

\* the section origin and panel width the claim gives for each strip clamp
ClaimedStripOrigin(fn) ==
    CASE fn = "leftSpineDragBound" -> 0
      [] fn = "backCenterDragBound" -> 24
      [] fn = "rightSpineDragBound" -> 542
      [] fn = "spineDragBoundFunc" -> 0

ClaimedStripWidth(fn) == IF fn = "backCenterDragBound" THEN 518 ELSE 24

\* C11: for a strip panel with section origin o (0, 24, 542; 0 for the
\* standalone spine), panel width W and rendered width Rw = naturalWidth *
\* 444 / naturalHeight (also when Rw < W), the clamped position has y = 0
\* and x in [min(o, o + W - Rw), o], and clamping it again returns it.
C11_StripClamp ==
    (probe.fn \in StripFns /\ Len(probeOut) >= 1)
        => LET o == ClaimedStripOrigin(probe.fn)
               W == ClaimedStripWidth(probe.fn)
               Rw == (probe.nat.width * 444) \div probe.nat.height
               out == probeOut[1]
           IN  /\ out.y = 0
               /\ Min(o, o + W - Rw) <= out.x
               /\ out.x <= o
               /\ Len(probeOut) = 2 => probeOut[2] = out

C11_Witness ==
    /\ probe.fn = "backCenterDragBound"
    /\ probe.nat = [width |-> 12, height |-> 222]
    /\ probe.x = 24 - 500
    /\ probe.y = 7
    /\ Len(probeOut) = 2
    /\ probeOut[2] = [x |-> 24, y |-> 0]

EditOps == {"readerOnload", "dragEnd"}

\* C12: a completed upload or a drag-end changes the part of the panel it
\* targets only, except that a left-spine edit made while sync is enabled
\* may also change the right spine.
C12_EditsChangeOnlyTheirPanel ==
    [][lastOp'.op \in EditOps
          => \A p \in Panels \ {lastOp'.panel} :
                \/ part'[p] = part[p]
                \/ (lastOp'.panel = "leftSpine" /\ syncSpines /\ p = "rightSpine")]_vars

C12_Witness ==
    /\ lastOp = Op("dragEnd", "leftSpine")
    /\ ~syncSpines
    /\ part["leftSpine"].x = -30
    /\ part["rightSpine"].imageUrl = "A"
    /\ part["rightSpine"].x = 0

\* C13: the step that disables sync changes no part; while sync is
\* disabled a completed right-spine upload sets the right spine's imageUrl
\* to the uploaded file, a right-spine drag-end sets the right spine's x to
\* the dragged position inside the clamp range of the image shown, and
\* left-spine edits leave the right spine's part unchanged.
C13_DisableSyncKeepsState ==
    [][/\ (syncSpines /\ ~syncSpines') => part' = part
       /\ (~syncSpines /\ lastOp' = Op("readerOnload", "rightSpine"))
             => \E r \in reads \ reads' :
                   part'["rightSpine"] = [part["rightSpine"] EXCEPT !.imageUrl = r.url]
       /\ (~syncSpines /\ lastOp' = Op("dragEnd", "rightSpine"))
             => \E cx \in DragOffsets :
                   /\ part'["rightSpine"] =
                        [part["rightSpine"] EXCEPT !.x = Max(Min(0, RIGHT_SPINE_WIDTH - StripRenderedWidth("rightSpine")), Min(0, cx))]
       /\ (~syncSpines /\ lastOp'.op \in EditOps /\ lastOp'.panel = "leftSpine")
             => part'["rightSpine"] = part["rightSpine"]]_vars

C13_Witness ==
    /\ lastOp = Op("dragEnd", "rightSpine")
    /\ ~syncSpines
    /\ nOps.toggles = 2
    /\ part["leftSpine"].imageUrl = "A"
    /\ part["leftSpine"].x = 0
    /\ part["rightSpine"].imageUrl = "A"
    /\ part["rightSpine"].x = -30

FillHeightOf(fn) == IF fn = "calculatedScale" THEN SPINE_HEIGHT ELSE TRAY_HEIGHT

\* a scale computed for an image the component holds: the tray's function
\* is applied to the natural height alone, the two single-panel components
\* take the policy branch only for a loaded image
ScaleComputedFor(fns) ==
    /\ probe.fn \in fns
    /\ Len(probeOut) = 1
    /\ (probe.fn # "calculateFillHeightScale" => probe.isImageLoaded)

\* C14: fill-height policy. For a natural height above 0 the scale is
\* panelHeight / naturalHeight, so scale x naturalHeight is the panel height,
\* and it is the same for every natural width; for natural height 0 it is 1.
C14_FillHeightScale ==
    ScaleComputedFor({"calculateFillHeightScale", "calculatedScale"}) =>
        LET s == probeOut[1]
            H == FillHeightOf(probe.fn)
            nh == probe.nat.height
        IN  IF nh > 0
            THEN /\ s.den > 0
                 /\ s.num * nh = H * s.den
                 /\ Times(nh, s) = H
                 /\ \A w \in ScaleWidths :
                       ScaleOf(probe.fn, probe.isImageLoaded, [width |-> w, height |-> nh]) = s
            ELSE s = One

C14_Witness ==
    /\ probe.fn = "calculateFillHeightScale"
    /\ probe.nat = [width |-> 12, height |-> 222]
    /\ probeOut = <<[num |-> 444, den |-> 222]>>

\* C15: cover policy on the 456 x 456 front cover. For a natural size with
\* both sides above 0 the scale is max(W / naturalWidth, H / naturalHeight):
\* scale x naturalWidth >= W and scale x naturalHeight >= H, with equality
\* on at least one of the two axes.
C15_CoverScale ==
    (ScaleComputedFor({"coverScale"}) /\ probe.nat.width > 0 /\ probe.nat.height > 0) =>
        LET s == probeOut[1]
            nw == probe.nat.width
            nh == probe.nat.height
        IN  /\ s.den > 0
            /\ s.num * nw >= FRONT_WIDTH * s.den
            /\ s.num * nh >= FRONT_HEIGHT * s.den
            /\ \/ s.num * nw = FRONT_WIDTH * s.den
               \/ s.num * nh = FRONT_HEIGHT * s.den
            /\ Times(nw, s) >= FRONT_WIDTH
            /\ Times(nh, s) >= FRONT_HEIGHT

C15_Witness ==
    /\ probe.fn = "coverScale"
    /\ probe.isImageLoaded
    /\ probe.nat = [width |-> 888, height |-> 444]
    /\ probeOut = <<[num |-> 456, den |-> 444]>>

\* the paper of the running or last export, when its key is in the table
TablePaper == PAPER_SIZES(opts.paperSize)

\* C16: export layout, lengths in 1/10000 inch. For each paper of the table
\* the content block is 5.9 x 9.875 and centred on the sheet; the front
\* image is embedded at (startX + (5.9 - 4.75)/2, startY) with size
\* 4.75 x 4.75, the tray image at (startX, startY + 4.75 + 0.5) with size
\* 5.9 x 4.625; on A4 the front image's top is at 0.9075.
C16_ExportLayout ==
    opts.paperSize \in ValidPaperKeys =>
        LET claimedStartX == (TablePaper.width - 59000) \div 2
            claimedStartY == (TablePaper.height - 98750) \div 2
        IN  /\ contentWidth = 59000
            /\ totalContentHeight = 98750
            /\ 2 * claimedStartX = TablePaper.width - 59000
            /\ 2 * claimedStartY = TablePaper.height - 98750
            /\ \A i \in OpsWhere("addImage", "front") :
                  /\ pdfOps[i].x1 = claimedStartX + 5750
                  /\ pdfOps[i].y1 = claimedStartY
                  /\ pdfOps[i].x2 = 47500 /\ pdfOps[i].y2 = 47500
                  /\ opts.paperSize = "A4" => pdfOps[i].y1 = 9075
            /\ \A i \in OpsWhere("addImage", "tray") :
                  /\ pdfOps[i].x1 = claimedStartX
                  /\ pdfOps[i].y1 = claimedStartY + 47500 + 5000
                  /\ pdfOps[i].x2 = 59000 /\ pdfOps[i].y2 = 46250

C16_Witness ==
    /\ opts.paperSize = "A4"
    /\ \E i, j \in 1..Len(pdfOps) :
          /\ pdfOps[i] = PdfOp("addImage", 17600, 9075, 47500, 47500, FALSE, "front")
          /\ pdfOps[j] = PdfOp("addImage", 11850, 61575, 59000, 46250, FALSE, "tray")

\* the two boxes crop marks are drawn around: <<x, y, width, height>>
CropBox(by) ==
    IF by = "cropFront"
    THEN [x |-> frontX(TablePaper), y |-> frontY(TablePaper), w |-> 47500, h |-> 47500]
    ELSE [x |-> trayX(TablePaper), y |-> trayY(TablePaper), w |-> 59000, h |-> 46250]

\* the eight segments the claim places around a box, as <<x1, y1, x2, y2>>
ClaimedCropSegments(b) ==
    { <<b.x - 2500, b.y, b.x - 1000, b.y>>,
      <<b.x, b.y - 2500, b.x, b.y - 1000>>,
      <<b.x + b.w + 1000, b.y, b.x + b.w + 2500, b.y>>,
      <<b.x + b.w, b.y - 2500, b.x + b.w, b.y - 1000>>,
      <<b.x - 2500, b.y + b.h, b.x - 1000, b.y + b.h>>,
      <<b.x, b.y + b.h + 1000, b.x, b.y + b.h + 2500>>,
      <<b.x + b.w + 1000, b.y + b.h, b.x + b.w + 2500, b.y + b.h>>,
      <<b.x + b.w, b.y + b.h + 1000, b.x + b.w, b.y + b.h + 2500>> }

\* an axis-parallel segment has a point in the closed box
SegmentMeetsBox(l, b) ==
    /\ Min(l.x1, l.x2) <= b.x + b.w
    /\ Max(l.x1, l.x2) >= b.x
    /\ Min(l.y1, l.y2) <= b.y + b.h
    /\ Max(l.y1, l.y2) >= b.y

\* C17: around each of the two boxes exactly eight crop-mark segments are
\* drawn, two per corner on the extensions of the box edges, each 0.15 long
\* and starting 0.1 outside the box; no crop-mark segment has a point in the
\* front-cover box or in the tray box.
C17_CropMarks ==
    (opts.paperSize \in ValidPaperKeys /\ OpsWhere("line", "cropFront") # {}) =>
        \A by \in {"cropFront", "cropTray"} :
            LET drawn == OpsWhere("line", by)
            IN  /\ Cardinality(drawn) = 8
                /\ {<<pdfOps[i].x1, pdfOps[i].y1, pdfOps[i].x2, pdfOps[i].y2>> : i \in drawn}
                      = ClaimedCropSegments(CropBox(by))
                /\ Cardinality(ClaimedCropSegments(CropBox(by))) = 8
                /\ \A i \in drawn :
                      /\ (pdfOps[i].x2 - pdfOps[i].x1) + (pdfOps[i].y2 - pdfOps[i].y1) = 1500
                      /\ pdfOps[i].x1 = pdfOps[i].x2 \/ pdfOps[i].y1 = pdfOps[i].y2
                      /\ ~pdfOps[i].dash
                      /\ \A box \in {"cropFront", "cropTray"} :
                            ~SegmentMeetsBox(pdfOps[i], CropBox(box))

C17_Witness ==
    /\ opts.paperSize = "A4"
    /\ Cardinality(OpsWhere("line", "cropFront")) = 8
    /\ Cardinality(OpsWhere("line", "cropTray")) = 8
    /\ \E i \in OpsWhere("line", "cropFront") :
          pdfOps[i] = Line(17600 - 2500, 9075, 17600 - 1000, 9075, FALSE, "cropFront")
    /\ \E i \in OpsWhere("line", "cropTray") :
          pdfOps[i] = Line(11850, 61575 - 2500, 11850, 61575 - 1000, FALSE, "cropTray")

\* the place of a drawing operation in the claimed order
DrawRank(o) ==
    CASE o.by = "foldGuide" -> 1
      [] o.by = "front" -> 2
      [] o.by = "tray" -> 3
      [] o.by = "cropFront" -> 4
      [] o.by = "cropTray" -> 5
      [] o.by = "save" -> 6
      [] OTHER -> 0

\* C18: in an export with a paper of the table the operations on the
\* document come in the order fold guides, front image, tray image, crop
\* marks of the front box, crop marks of the tray box, save: no fold guide
\* follows an image, no image follows a crop mark, the fold guides precede
\* everything else drawn and the save comes last.
C18_DrawingOrder ==
    opts.paperSize \in ValidPaperKeys =>
        /\ \A i, j \in 1..Len(pdfOps) :
              i < j => DrawRank(pdfOps[i]) <= DrawRank(pdfOps[j])
        /\ \A j \in 1..Len(pdfOps) :
              DrawRank(pdfOps[j]) >= 2 => Cardinality(OpsWhere("line", "foldGuide")) = 2
        /\ \A j \in OpsWhere("save", "save") :
              /\ j = Len(pdfOps)
              /\ Cardinality(OpsWhere("line", "cropFront")) = 8
              /\ Cardinality(OpsWhere("line", "cropTray")) = 8

C18_Witness ==
    /\ epc = "resolved"
    /\ Len(pdfOps) = 22
    /\ [i \in 1..6 |-> pdfOps[i].by] = <<"paper", "foldGuide", "foldGuide", "front", "tray", "cropFront">>
    /\ pdfOps[13].by = "cropFront"
    /\ pdfOps[14].by = "cropTray"
    /\ pdfOps[22].op = "save"

\* the positions of exportToPDF inside getStageImage or between it and addImage
InStage(s) == {s \o ":raster", s \o ":show", s \o ":embed"}

\* C19: the two stages are exported one after the other, front first: when
\* the tray stage's overlays are hidden or it is rasterized, a present front
\* stage has been rasterized and has either been embedded or failed; at no
\* moment are overlay shapes of both stages hidden; and the steps inside a
\* stage change nothing of the editor and start no second export.
C19_StagesStrictlySequential ==
    [][/\ epc' \in InStage("tray") =>
            /\ opts'.frontStage =>
                  /\ Cardinality({i \in 1..Len(rasters') : rasters'[i].stage = "front"}) = 1
                  /\ \/ \E i \in 1..Len(pdfOps') : pdfOps'[i].op = "addImage" /\ pdfOps'[i].by = "front"
                     \/ \E i \in 1..Len(console') : console'[i] = "Failed to export front"
            /\ \A i, j \in 1..Len(rasters') :
                  (rasters'[i].stage = "front" /\ rasters'[j].stage = "tray") => i < j
       /\ ~(hidden'["front"] # {} /\ hidden'["tray"] # {})
       /\ (epc \in InStage("front") \cup InStage("tray")) =>
            /\ editorVars' = editorVars
            /\ opts' = opts
            /\ isExporting']_vars

\* what the claim says a unit of the title becomes
ClaimedUnit(c) ==
    IF c \in Range(UpperLetters)
    THEN LowerLetters[CHOOSE i \in 1..Len(UpperLetters) : UpperLetters[i] = c]
    ELSE IF InClass(c) THEN c ELSE "_"

FilenameGenerated == probe.fn = "filename" /\ Len(probeOut) = 1

\* the parts of the claim about the file name itself
FilenameAsClaimed ==
    LET title == probe.title
        out == probeOut[1]
        sanitized == SubSeq(out, 1, Len(out) - Len(FilenameSuffix))
    IN  /\ Len(out) = Len(title) + Len(FilenameSuffix)
        /\ SubSeq(out, Len(title) + 1, Len(out)) = <<"_", "j", "e", "w", "e", "l", "_", "c", "a", "s", "e", ".", "p", "d", "f">>
        /\ Len(sanitized) = Len(title)
        /\ \A i \in 1..Len(title) : sanitized[i] = ClaimedUnit(title[i])
        /\ Range(sanitized) \subseteq Range(LowerLetters) \cup DigitChars \cup {"-", "_"}
        /\ title = <<"M", "y", " ", "A", "l", "b", "u", "m", " ", "#", "1", "!">> => sanitized = <<"m", "y", "_", "a", "l", "b", "u", "m", "_", "_", "1", "_">>

\* lower-casing before the replacement gives the same sanitized title
LowerFirstAgrees ==
    replaceOutsideClass(toLowerCase(probe.title)) \o FilenameSuffix = probeOut[1]

\* every unit of the title is an ASCII character
AsciiTitle == \A i \in 1..Len(probe.title) : probe.title[i] \in {" ", "#", "!"} \/ InClass(probe.title[i])

\* C20 as stated: for every title the file name is the title with each
\* character outside [A-Za-z0-9_-] replaced by '_' and letters lower-cased,
\* followed by '_jewel_case.pdf'; the sanitized part is as long as the title
\* and has only characters of [a-z0-9_-]; lower-casing before the
\* replacement gives the same result; 'My Album #1!' gives 'my_album__1_'.
C20_FilenameAsStated ==
    FilenameGenerated => (FilenameAsClaimed /\ LowerFirstAgrees)

\* C20 as amended: the same, with the order of lower-casing and replacement
\* immaterial for titles of ASCII characters only.
C20_Filename ==
    FilenameGenerated => (FilenameAsClaimed /\ (AsciiTitle => LowerFirstAgrees))

C20_Witness ==
    /\ probe.fn = "filename"
    /\ probe.title = <<"M", "y", " ", "A", "l", "b", "u", "m", " ", "#", "1", "!">>
    /\ probeOut = <<<<"m", "y", "_", "a", "l", "b", "u", "m", "_", "_", "1", "_", "_", "j", "e", "w", "e", "l", "_", "c", "a", "s", "e", ".", "p", "d", "f">>>>

\* C21: the step in which the decode of a panel's image fails leaves that
\* panel unloaded, so that it renders no image, and leaves the loaded flag,
\* image element, natural size and part of every other panel, and every
\* part, unchanged.
C21_DecodeFailureStaysLocal ==
    [][lastOp'.op = "imgOnerror"
          => /\ ~loaded'[lastOp'.panel]
             /\ ~(loaded'[lastOp'.panel] /\ img'[lastOp'.panel] # NoImage)
             /\ part' = part
             /\ syncSpines' = syncSpines
             /\ \A q \in Panels \ {lastOp'.panel} :
                   /\ loaded'[q] = loaded[q]
                   /\ img'[q] = img[q]
                   /\ natural'[q] = natural[q]]_vars

C21_Witness ==
    /\ lastOp = Op("imgOnerror", "leftSpine")
    /\ part["leftSpine"].imageUrl = "X"
    /\ img["leftSpine"] = "A"
    /\ ~loaded["leftSpine"]
    /\ loaded["rightSpine"]
    /\ img["rightSpine"] = "A"

\* C22: inchesToPixels gives the integer nearest to inches x 96, and the
\* panel sizes derived with it are front cover 456 x 456, back center
\* 518 x 444, each spine 24 x 444, tray total 566 x 444, bleed inset 12.
C22_PixelDimensions ==
    /\ (probe.fn = "inchesToPixels" /\ Len(probeOut) = 1) =>
          LET exact1000 == probe.x * 96
              px == probeOut[1]
          IN  /\ 2 * (1000 * px - exact1000) <= 1000
              /\ 2 * (exact1000 - 1000 * px) < 1000
    /\ FRONT_WIDTH = 456 /\ FRONT_HEIGHT = 456
    /\ BACK_CENTER_WIDTH = 518 /\ TRAY_HEIGHT = 444
    /\ LEFT_SPINE_WIDTH = 24 /\ RIGHT_SPINE_WIDTH = 24
    /\ SPINE_WIDTH = 24 /\ SPINE_HEIGHT = 444
    /\ TRAY_TOTAL_WIDTH = 566
    /\ BLEED_SIZE = 12

C22_Witness ==
    /\ probe.fn = "inchesToPixels"
    /\ probe.x = 5400
    /\ probeOut = <<518>>

\* the identity fields the claims give each panel
ClaimedId(p) ==
    CASE p = "front" -> "front-cover"
      [] p = "leftSpine" -> "left-spine"
      [] p = "backCenter" -> "back-center"
      [] p = "rightSpine" -> "right-spine"

ClaimedName(p) ==
    CASE p = "front" -> "Front Cover"
      [] p = "leftSpine" -> "Left Spine"
      [] p = "backCenter" -> "Back Center"
      [] p = "rightSpine" -> "Right Spine"

\* C23: before any operation the four parts are empty (imageUrl null,
\* x = 0, y = 0, scale = 1, rotation = 0) with the ids front-cover,
\* left-spine, back-center and right-spine, and sync is disabled.
C23_InitialStateEmpty ==
    lastOp.op = "init" =>
        /\ ~syncSpines
        /\ DOMAIN part = {"front", "leftSpine", "backCenter", "rightSpine"}
        /\ \A p \in DOMAIN part :
              /\ part[p].id = ClaimedId(p)
              /\ part[p].imageUrl = NoUrl
              /\ part[p].x = 0 /\ part[p].y = 0
              /\ part[p].scale.num = part[p].scale.den
              /\ part[p].rotation = 0

C23_Witness ==
    /\ lastOp.op = "init"
    /\ nOps = [uploads |-> 0, drags |-> 0, toggles |-> 0]
    /\ part["rightSpine"] = [id |-> "right-spine", name |-> "Right Spine", imageUrl |-> NoUrl,
                             x |-> 0, y |-> 0, scale |-> One, rotation |-> 0]
    /\ loaded = [p \in Panels |-> FALSE]

\* C30: in every reachable state each panel's id and name are the ones it
\* was created with; the right spine never carries the left spine's.
C30_IdentityFieldsKept ==
    \A p \in Panels :
        /\ part[p].id = ClaimedId(p)
        /\ part[p].name = ClaimedName(p)

C30_Witness ==
    /\ syncSpines
    /\ lastOp = Op("dragEnd", "leftSpine")
    /\ part["leftSpine"].imageUrl = "A"
    /\ part["rightSpine"].imageUrl = "A"
    /\ part["rightSpine"].x = -30
    /\ part["rightSpine"].id = "right-spine"
    /\ part["rightSpine"].name = "Right Spine"

\* the panel's image config is non-null: an image is drawn for it
Renders(p) == loaded[p] /\ img[p] # NoImage

\* C24: in every reachable state a panel whose imageUrl is null renders no
\* image, and a panel that renders an image has a non-null imageUrl for
\* which a decode has succeeded.
C24_RendersOnlyDecodedCurrentUrl ==
    \A p \in Panels :
        /\ part[p].imageUrl = NoUrl => ~Renders(p)
        /\ Renders(p) => /\ part[p].imageUrl # NoUrl
                         /\ part[p].imageUrl \in decoded[p]

\* the overlay shapes of a stage by name: cut-line border, safety zones,
\* section dividers
ClaimedOverlays(s) ==
    IF s = "front"
    THEN {"border", "safetyZone"}
    ELSE {"border", "dividerLeft", "dividerRight",
          "safetyLeftSpine", "safetyBackCenter", "safetyRightSpine"}

\* C25: each rasterization of a stage happens with exactly the dashed
\* rectangles, the stroked unfilled rectangles and the lines of its layer
\* hidden, the filled background rectangles and the images visible, and with
\* pixel ratio 3 whatever the paper size.
C25_RasterHidesExactlyOverlays ==
    /\ \A i \in 1..Len(rasters) :
          LET s == rasters[i].stage
              shapes == StageShapes(s)
          IN  /\ rasters[i].pixelRatio = 3
              /\ rasters[i].hidden =
                    {sh.id : sh \in {r \in shapes : r.kind = "Rect" /\ r.dash}}
                    \cup {sh.id : sh \in {r \in shapes : r.kind = "Rect" /\ r.stroke /\ ~r.fill}}
                    \cup {sh.id : sh \in {r \in shapes : r.kind = "Line"}}
              /\ rasters[i].hidden = ClaimedOverlays(s)
              /\ \A sh \in shapes :
                    (sh.kind = "Image" \/ (sh.kind = "Rect" /\ sh.fill)) => sh.id \notin rasters[i].hidden
    /\ \A s \in Stages : epc = s \o ":raster" => hidden[s] = ClaimedOverlays(s)

C25_Witness ==
    /\ opts.paperSize = "F4"
    /\ Len(rasters) = 2
    /\ rasters[1] = [stage |-> "front", pixelRatio |-> 3, hidden |-> {"border", "safetyZone"}, threw |-> FALSE]
    /\ rasters[2].stage = "tray"
    /\ rasters[2].pixelRatio = 3
    /\ Cardinality(rasters[2].hidden) = 6

\* an export with a paper of the table has passed its fold-guide step
FoldGuidesDue ==
    /\ opts.paperSize \in ValidPaperKeys
    /\ pdfOps # <<>>
    /\ epc # "foldGuides"

\* the fold guides drawn, as <<x1, y1, x2, y2, dash>>
FoldGuidesDrawn ==
    {<<pdfOps[i].x1, pdfOps[i].y1, pdfOps[i].x2, pdfOps[i].y2, pdfOps[i].dash>> :
        i \in OpsWhere("line", "foldGuide")}

\* C26 as stated: every export with a paper of the table draws exactly two
\* fold guides, vertical dashed lines at x = trayX + 0.25 and
\* x = trayX + 0.25 + 5.4 running from trayY to trayY + 4.625, whether or
\* not the tray stage is present or fails.
C26_FoldGuidesAsStated ==
    FoldGuidesDue =>
        LET tx == trayX(TablePaper)
            ty == trayY(TablePaper)
        IN  /\ Cardinality(OpsWhere("line", "foldGuide")) = 2
            /\ FoldGuidesDrawn = {<<tx + 2500, ty, tx + 2500, ty + 46250, TRUE>>,
                                  <<tx + 2500 + 54000, ty, tx + 2500 + 54000, ty + 46250, TRUE>>}

\* C26 as amended: the same two lines, each running from trayY - 0.15 to
\* trayY + 4.625 + 0.15.
C26_FoldGuides ==
    FoldGuidesDue =>
        LET tx == trayX(TablePaper)
            ty == trayY(TablePaper)
        IN  /\ Cardinality(OpsWhere("line", "foldGuide")) = 2
            /\ FoldGuidesDrawn = {<<tx + 2500, ty - 1500, tx + 2500, ty + 46250 + 1500, TRUE>>,
                                  <<tx + 2500 + 54000, ty - 1500, tx + 2500 + 54000, ty + 46250 + 1500, TRUE>>}

C26_Witness ==
    /\ epc = "resolved"
    /\ opts.paperSize = "A4"
    /\ ~opts.trayStage
    /\ pdfOps[2] = Line(14350, 60075, 14350, 109325, TRUE, "foldGuide")
    /\ pdfOps[3] = Line(68350, 60075, 68350, 109325, TRUE, "foldGuide")

\* an exportToPDF call started by handleExport has not yet been dealt with
\* by handleExport's catch / finally
ExportInFlight == epc # "idle"

\* C27: isExporting is true exactly while an export started by handleExport
\* is in flight; while isExporting is true no step starts an export; and
\* once the export has settled, resolved or rejected, isExporting becomes
\* false again.
C27_ExportingFlag ==
    /\ [](isExporting <=> ExportInFlight)
    /\ [][isExporting => (epc' # "validate" /\ opts' = opts)]_vars
    /\ (epc \in {"resolved", "rejected"}) ~> (~isExporting /\ ~ExportInFlight)

C27_Witness ==
    /\ ~isExporting
    /\ epc = "idle"
    /\ outcome.result = "rejected"
    /\ outcome.error = "InvalidPaperSize"
    /\ console = <<"Export failed">>

\* a point of the sheet lies on the page
OnPage(x, y) ==
    /\ 0 <= x /\ x <= TablePaper.width
    /\ 0 <= y /\ y <= TablePaper.height

\* C28: for A4, F4 and Letter the page has positive sides, and the front
\* box, the tray box, every crop mark and both fold guides lie on the page;
\* the two boxes do not overlap and the tray box starts exactly 0.5 below
\* the front box.
C28_EverythingOnPage ==
    opts.paperSize \in ValidPaperKeys =>
        LET front == CropBox("cropFront")
            tray == CropBox("cropTray")
        IN  /\ TablePaper.width > 0 /\ TablePaper.height > 0
            /\ TablePaper \in {[kind |-> "paper", width |-> 82700, height |-> 116900],
                               [kind |-> "paper", width |-> 85000, height |-> 130000],
                               [kind |-> "paper", width |-> 85000, height |-> 110000]}
            /\ \A b \in {front, tray} :
                  OnPage(b.x, b.y) /\ OnPage(b.x + b.w, b.y + b.h)
            /\ tray.y - (front.y + front.h) = 5000
            /\ ~(/\ front.x < tray.x + tray.w /\ tray.x < front.x + front.w
                 /\ front.y < tray.y + tray.h /\ tray.y < front.y + front.h)
            /\ \A i \in 1..Len(pdfOps) :
                  /\ pdfOps[i].op = "line" =>
                        OnPage(pdfOps[i].x1, pdfOps[i].y1) /\ OnPage(pdfOps[i].x2, pdfOps[i].y2)
                  /\ pdfOps[i].op = "addImage" =>
                        /\ OnPage(pdfOps[i].x1, pdfOps[i].y1)
                        /\ OnPage(pdfOps[i].x1 + pdfOps[i].x2, pdfOps[i].y1 + pdfOps[i].y2)
                        /\ <<pdfOps[i].x1, pdfOps[i].y1, pdfOps[i].x2, pdfOps[i].y2>>
                              \in {<<b.x, b.y, b.w, b.h>> : b \in {front, tray}}

C28_Witness ==
    /\ epc = "resolved"
    /\ opts.paperSize = "Letter"
    /\ Len(pdfOps) = 22
    /\ \E i \in OpsWhere("line", "cropFront") : pdfOps[i].y1 = 5625 - 2500
    /\ \E i \in OpsWhere("line", "cropTray") : pdfOps[i].y2 = 5625 + 98750 + 2500

TraySections == {"leftSpine", "backCenter", "rightSpine"}

\* the pixel columns a section's clip region covers
ClipColumns(p) == ClipConfigOf(p).clipX .. (ClipConfigOf(p).clipX + ClipConfigOf(p).clipWidth - 1)

\* the clip regions are pairwise disjoint and cover the columns 0..565
ClipRegionsTile ==
    /\ \A p, q \in TraySections : p # q => ClipColumns(p) \cap ClipColumns(q) = {}
    /\ UNION {ClipColumns(p) : p \in TraySections} = 0..565

\* C29: the three sections tile the tray: 24 + 518 + 24 = 566 = the tray's
\* total width, the origins are 0, 24 and 542, the clip regions are pairwise
\* disjoint and together cover the columns 0..565, and every section is 444
\* high.
C29_SectionsTileTray ==
    /\ LEFT_SPINE_WIDTH = 24 /\ BACK_CENTER_WIDTH = 518 /\ RIGHT_SPINE_WIDTH = 24
    /\ LEFT_SPINE_WIDTH + BACK_CENTER_WIDTH + RIGHT_SPINE_WIDTH = TRAY_TOTAL_WIDTH
    /\ TRAY_TOTAL_WIDTH = 566
    /\ leftSpineX = 0 /\ backCenterX = 24 /\ rightSpineX = 542
    /\ ClipRegionsTile
    /\ \A p \in TraySections :
          /\ ClipConfigOf(p).clipY = 0
          /\ ClipConfigOf(p).clipHeight = 444
    /\ \A p \in TraySections :
          Renders(p) => /\ Times(natural[p].height, calculateFillHeightScale(natural[p].height)) = 444
                        /\ PanelWidth(p) = ClipConfigOf(p).clipWidth

C29_Witness ==
    /\ \A p \in TraySections : Renders(p)
    /\ img["backCenter"] = "B"
    /\ img["leftSpine"] = "A"
    /\ img["rightSpine"] = "A"

====
